---- MODULE Spec2Model ----
(***************************************************************************)
(* Legends Z-A Donut Manager (streamlit_donut_app.py).                     *)
(*                                                                         *)
(* The store is the SQLite table user_inventory plus the server CSV file;  *)
(* a session holds inventory_df, run_search and filters in                 *)
(* st.session_state.  Every user action is one run of the script (plus the *)
(* rerun it asks for), so every action below ends with what tab3 shows.    *)
(***************************************************************************)
EXTENDS Integers, Sequences, FiniteSets, TLC

\* ------------------------------------------------------------- bounds ----
NumRecipes == 52

MaxQty == 2

MaxInvQty == 1

MaxImportRows == 2

MaxConcRecipe == 8

\* LIMIT 50 of the tab3 query
LimitRows == 50

\* NumberColumn("Quantity", min_value=0, ...)
MinEdit == 0

\* ------------------------------------------------------------ helpers ----
Max(a, b) == IF a >= b THEN a ELSE b

Min(a, b) == IF a <= b THEN a ELSE b

Range(s) == {s[i] : i \in DOMAIN s}

\* ------------------------------------------------------------ catalog ----
\* The tables recipes and recipe_items are data of the shipped database; the
\* code only reads them.  The catalog below is one such database: recipe 3
\* carries the same ingredients and stats as recipe 2, so the two tie on
\* every ranking key, and recipes whose counts are both 0 have no ingredient.
Berries == {"Apple", "Pear"}

\* a berry name of an imported file that no recipe uses
UnknownBerry == "Kiwi"

\* pandas' missing value in the berry_name column
NaN == "NaN"

RecipeIds == 1..NumRecipes

\* an id that is in no row of recipes or recipe_items
AbsentId == NumRecipes + 1

Base(i) == IF i = 3 THEN 2 ELSE i

AppleCount(i) == Base(i) % 3

PearCount(i) == (Base(i) \div 3) % 3

\* one row of the table recipes
recipes(i) ==
    LET b == Base(i)
        sweet == 20 * (b % 39)
        sour == 10 * (b % 5)
        fresh == 5 * (b % 7)
    IN  [id |-> i,
         stars |-> b % 6,
         final_calories |-> 10 * (b \div 2),
         final_boost |-> (3 * b) % 121,
         num_berries |-> AppleCount(i) + PearCount(i),
         sweet |-> sweet,
         spicy |-> 760 - sweet,
         sour |-> sour,
         bitter |-> 0,
         fresh |-> fresh,
         flavor_sum |-> 760 + sour + fresh]

\* the rows of recipe_items of recipe i: (berry_name, count), count positive
ItemsOf(i) ==
    SelectSeq(<< [berry_name |-> "Apple", count |-> AppleCount(i)],
                 [berry_name |-> "Pear", count |-> PearCount(i)] >>,
              LAMBDA it : it.count > 0)

RECURSIVE CatalogUpTo(_)
CatalogUpTo(n) == IF n = 0 THEN << >> ELSE Append(CatalogUpTo(n - 1), recipes(n))

RECURSIVE ItemsUpTo(_)
ItemsUpTo(n) == IF n = 0 THEN << >> ELSE Append(ItemsUpTo(n - 1), ItemsOf(n))

\* the table recipes, by id
Catalog == CatalogUpTo(NumRecipes)

\* the table recipe_items, by recipe_id
ItemRows == ItemsUpTo(NumRecipes)

\* SELECT berry_name, count FROM recipe_items WHERE recipe_id = i
recipe_items(i) == IF i \in RecipeIds THEN ItemRows[i] ELSE << >>

\* SELECT DISTINCT berry_name FROM recipe_items
DistinctBerries ==
    UNION {{it.berry_name : it \in Range(recipe_items(i))} : i \in RecipeIds}

\* --------------------------------------------------------------- store ----
\* the order in which a scan of user_inventory yields its rows
ScanNames == << "Apple", "Kiwi", "Pear" >>

\* IFNULL(ui.quantity, 0) over the LEFT JOIN: no inventory row reads as 0
IfNull(table, name) == IF name \in DOMAIN table THEN table[name] ELSE 0

\* init_db: seeds one row of quantity 0 per berry of recipe_items, but only
\* when user_inventory holds no row
init_db(table) ==
    IF Cardinality(DOMAIN table) = 0
    THEN [n \in DistinctBerries |-> 0]
    ELSE table

\* INSERT OR REPLACE in place of UPDATE: a row for a name the table lacks
SqlUpsert(table, name, q) ==
    [n \in DOMAIN table \cup {name} |-> IF n = name THEN q ELSE table[n]]

\* UPDATE user_inventory SET quantity = q WHERE berry_name = name
SqlUpdate(table, name, q) ==
    [n \in DOMAIN table |-> IF n = name THEN q ELSE table[n]]

\* cursor.executemany over the rows of the frame, in row order
RECURSIVE executemany(_, _)
executemany(table, rows) ==
    IF rows = << >> THEN table
    ELSE executemany(SqlUpdate(table, Head(rows).berry_name, Head(rows).quantity),
                     Tail(rows))

\* the first column of the file to_csv writes: a missing name is written empty
WriteCsv(df) ==
    [i \in DOMAIN df |-> IF df[i].berry_name = NaN THEN "" ELSE df[i].berry_name]

\* save_inventory(df): the table after the updates, and the file written
save_inventory(table, df) ==
    [db |-> executemany(table, df), csv |-> WriteCsv(df)]

\* get_csv_order: the first cell of every row after the header
get_csv_order(file) == file

\* SELECT berry_name, quantity FROM user_inventory
ReadSql(table) ==
    LET names == SelectSeq(ScanNames, LAMBDA n : n \in DOMAIN table)
    IN  [i \in DOMAIN names |-> [berry_name |-> names[i], quantity |-> table[names[i]]]]

HasDuplicates(s) == \E i, j \in DOMAIN s : i < j /\ s[i] = s[j]

\* sort_values on the categorical column: the rows in category order
RECURSIVE ByCategory(_, _)
ByCategory(df, cats) ==
    IF cats = << >> THEN << >>
    ELSE SelectSeq(df, LAMBDA r : r.berry_name = Head(cats))
         \o ByCategory(df, Tail(cats))

\* load_inventory: the table's rows, ordered by the CSV's names when it has
\* any.  pd.Categorical turns a name that is not a category into NaN (sorted
\* last) and raises ValueError when the categories repeat.
load_inventory(table, file) ==
    LET df == ReadSql(table)
        ordered_names == get_csv_order(file)
        missing == SelectSeq(df, LAMBDA r : r.berry_name \notin Range(ordered_names))
    IN  IF ordered_names = << >> THEN [ok |-> TRUE, df |-> df]
        ELSE IF HasDuplicates(ordered_names) THEN [ok |-> FALSE, df |-> << >>]
        ELSE [ok |-> TRUE,
              df |-> ByCategory(df, ordered_names)
                     \o [i \in DOMAIN missing |->
                            [berry_name |-> NaN, quantity |-> missing[i].quantity]]]

\* quantity - count, without the floor
DecrementNoFloor(q, count) == q - count

\* quantity = MAX(0, quantity - count)
Decrement(q, count) == Max(0, q - count)

\* the loop of cook_recipe over the fetched ingredient rows
RECURSIVE CookLoop(_, _)
CookLoop(table, ingredients) ==
    IF ingredients = << >> THEN table
    ELSE LET name == Head(ingredients).berry_name
             count == Head(ingredients).count
         IN  CookLoop(IF name \in DOMAIN table
                      THEN SqlUpdate(table, name, Decrement(table[name], count))
                      ELSE table,
                      Tail(ingredients))

\* cook_recipe(recipe_id), run alone: select, update each ingredient, commit.
\* It raises nothing and returns None whatever the id.
cook_recipe(table, recipe_id) ==
    [db |-> CookLoop(table, recipe_items(recipe_id)), outcome |-> "ok"]

\* -------------------------------------------------------------- search ----
\* r.col > min_v AND r.col <= max_v
BetweenOpenMin(v, min_v, max_v) == min_v < v /\ v <= max_v

\* r.col BETWEEN min_v AND max_v
Between(v, min_v, max_v) == min_v <= v /\ v <= max_v

\* NOT EXISTS (... WHERE ri.recipe_id = r.id AND ri.count > IFNULL(ui.quantity, 0))
Craftable(table, i) ==
    ~ \E k \in DOMAIN ItemRows[i] :
          ItemRows[i][k].count > IfNull(table, ItemRows[i][k].berry_name)

\* the WHERE clause: craftable, and every BETWEEN of where_clauses
Where(table, f) ==
    LET where_clauses == f.flavors \o f.stats
    IN  {i \in RecipeIds :
            /\ Craftable(table, i)
            /\ \A k \in DOMAIN where_clauses :
                  Between(Catalog[i][where_clauses[k][1]],
                          where_clauses[k][2], where_clauses[k][3])}

\* ORDER BY names two keys and nothing else: the order of two recipes that
\* agree on both is whatever the engine's scan yields (it differs with the
\* indexes of the database file).  TiedIds are the recipes of this catalog
\* that agree with another one on both keys of a ranking; a scan order ranks
\* them, and every order SQL allows is the order of some scan.
KeysEqual(prio, a, b) ==
    IF prio
    THEN /\ Catalog[a].num_berries = Catalog[b].num_berries
         /\ Catalog[a].final_calories = Catalog[b].final_calories
    ELSE /\ Catalog[a].final_calories = Catalog[b].final_calories
         /\ Catalog[a].stars = Catalog[b].stars

TiedIds ==
    {a \in RecipeIds :
        \E b \in RecipeIds : a # b /\ (KeysEqual(TRUE, a, b) \/ KeysEqual(FALSE, a, b))}

ScanOrders ==
    {t \in [TiedIds -> 1..Cardinality(TiedIds)] :
        \A a, b \in TiedIds : a # b => t[a] # t[b]}

\* the scan that yields the recipes in catalog (id) order
CatalogScan == CHOOSE t \in ScanOrders : \A a, b \in TiedIds : a < b => t[a] < t[b]

\* the ranking with final_calories ascending as the second key when prio
KeyBeforeCaloriesAsc(prio, a, b) ==
    IF prio
    THEN \/ Catalog[a].num_berries < Catalog[b].num_berries
         \/ /\ Catalog[a].num_berries = Catalog[b].num_berries
            /\ Catalog[a].final_calories < Catalog[b].final_calories
    ELSE \/ Catalog[a].final_calories > Catalog[b].final_calories
         \/ /\ Catalog[a].final_calories = Catalog[b].final_calories
            /\ Catalog[a].stars > Catalog[b].stars

\* order_by: "r.num_berries ASC, r.final_calories DESC" when prio, else
\* "r.final_calories DESC, r.stars DESC"; a strictly before b on the keys
KeyBefore(prio, a, b) ==
    IF prio
    THEN \/ Catalog[a].num_berries < Catalog[b].num_berries
         \/ /\ Catalog[a].num_berries = Catalog[b].num_berries
            /\ Catalog[a].final_calories > Catalog[b].final_calories
    ELSE \/ Catalog[a].final_calories > Catalog[b].final_calories
         \/ /\ Catalog[a].final_calories = Catalog[b].final_calories
            /\ Catalog[a].stars > Catalog[b].stars

\* a before b in the rows the engine returns under scan order t
Before(prio, t, a, b) ==
    \/ KeyBefore(prio, a, b)
    \/ a # b /\ KeysEqual(prio, a, b) /\ t[a] < t[b]

\* the set S as the sequence ordered by Before
RECURSIVE Sort(_, _, _)
Sort(S, prio, t) ==
    IF S = {} THEN << >>
    ELSE LET first == CHOOSE i \in S : \A j \in S \ {i} : Before(prio, t, i, j)
         IN  << first >> \o Sort(S \ {first}, prio, t)

\* the whole catalog in each ranking and scan order, computed once: ordering
\* a subset by a total order is keeping its members of the ordered whole
RECURSIVE SortedUnder(_, _)
SortedUnder(prio, T) ==
    IF T = {} THEN << >>
    ELSE LET t == CHOOSE x \in T : TRUE
         IN  (t :> Sort(RecipeIds, prio, t)) @@ SortedUnder(prio, T \ {t})

SortedCatalog ==
    (TRUE :> SortedUnder(TRUE, ScanOrders)) @@ (FALSE :> SortedUnder(FALSE, ScanOrders))

OrderBy(rows, prio, t) ==
    SelectSeq(SortedCatalog[prio][t], LAMBDA i : i \in rows)

\* LIMIT n
Limit(s, n) == SubSeq(s, 1, Min(Len(s), n))

\* the tab3 query: SELECT ... WHERE ... ORDER BY ... LIMIT 50 (the ids)
SearchQuery(table, f, t) ==
    Limit(OrderBy(Where(table, f), f.prio, t), LimitRows)

\* -------------------------------------------------------------- inputs ----
\* what the user can type into the Quantity column, capped at maxq
EditQty(maxq) == MinEdit..maxq

\* the names an uploaded file lists: one the inventory has, one it lacks
ImportNames == {"Apple", UnknownBerry}

\* uploaded files that have the columns berry_name and quantity: up to
\* MaxImportRows rows of any names, here all of one quantity (read_csv takes
\* any integer, a negative one too)
ImportFiles(maxq) ==
    UNION {{[i \in 1..n |-> [berry_name |-> names[i], quantity |-> q]] :
               names \in [1..n -> ImportNames], q \in {-1, maxq}} :
           n \in 0..MaxImportRows}

\* flavor_filters: the checked flavors with their slider ranges, as
\* (column, min, max); the slider's default range is (420, 760)
FlavorChoices ==
    { << >>,
      << <<"sweet", 420, 760>> >>,
      << <<"sweet", 420, 760>>, <<"spicy", 0, 340>> >>,
      << <<"sour", 10, 20>> >> }

\* stat_filter: None, or (column, min, max) of the chosen radio entry
StatChoices ==
    { << >>,
      << <<"stars", 3, 5>> >>,
      << <<"final_calories", 0, 100>> >> }

FilterSpecs == [flavors : FlavorChoices, stats : StatChoices, prio : BOOLEAN]

\* no flavor checked, Restrict By None, the ranking checkbox as it starts
NoFilters == [flavors |-> << >>, stats |-> << >>, prio |-> TRUE]

\* --------------------------------------------------------------- state ----
VARIABLES
    db,            \* user_inventory: berry_name -> quantity (committed)
    csv,           \* CSV_FILE: the berry_name cells of its rows
    inventory_df,  \* st.session_state.inventory_df
    crashed,       \* the last run died in load_inventory (no inventory_df)
    run_search,    \* st.session_state.run_search
    filters,       \* st.session_state.filters
    results,       \* the recipe ids tab3 shows
    last,          \* the store operation or search just completed, and how it ended
    old,           \* user_inventory before the cook_recipe calls considered
    pc,            \* concurrent sessions: where each is in its call
    cooking,       \* the recipe_id each called cook_recipe with
    ingredients,   \* the fetched rows each has still to update
    intx,          \* whether each connection has an open write transaction
    txn,           \* each connection's uncommitted user_inventory
    base,          \* user_inventory when each connection began to write
    seen           \* what each session's SELECT of user_inventory returned

svars == << db, csv, inventory_df, crashed, run_search, filters, results, last, old >>

cvars == << pc, cooking, ingredients, intx, txn, base, seen >>

vars == << svars, cvars >>

Sessions == {1, 2}

Done(op, id, outcome) == [op |-> op, id |-> id, outcome |-> outcome]

InitSession ==
    /\ csv = << >>
    /\ inventory_df = load_inventory(db, csv).df
    /\ crashed = FALSE
    /\ run_search = FALSE
    /\ filters = NoFilters
    /\ results = << >>
    /\ last = Done("start", -1, "ok")
    /\ old = db

InitConc ==
    /\ pc = [s \in Sessions |-> "idle"]
    /\ cooking = [s \in Sessions |-> AbsentId]
    /\ ingredients = [s \in Sessions |-> << >>]
    /\ intx = [s \in Sessions |-> FALSE]
    /\ txn = [s \in Sessions |-> db]
    /\ base = [s \in Sessions |-> db]
    /\ seen = [s \in Sessions |->
                 [read |-> FALSE, inv |-> db, recipe |-> AbsentId,
                  before |-> db, updates |-> 0]]

\* the first run of the script: init_db on a database whose user_inventory
\* is empty, then the sidebar's load_inventory
Init ==
    /\ db = init_db(<< >>)
    /\ InitSession
    /\ InitConc

\* tab3 of a run: the query runs when run_search is set
Tab3(table, search, f) ==
    IF search
    THEN results' \in {SearchQuery(table, f, t) : t \in ScanOrders}
    ELSE results' = << >>

\* tab1: the user changed the quantity of row i of the editor to v (filter
\* mode All: the editor shows every row of inventory_df)
EditQuantity(i, v) ==
    /\ ~crashed
    /\ i \in DOMAIN inventory_df
    /\ v # inventory_df[i].quantity
    /\ LET master_df == [inventory_df EXCEPT ![i].quantity = v]
           saved == save_inventory(init_db(db), master_df)
       IN  /\ inventory_df' = master_df
           /\ db' = saved.db
           /\ csv' = saved.csv
           /\ Tab3(saved.db, run_search, filters)
           /\ last' = Done("edit", -1, "ok")
    /\ UNCHANGED << crashed, run_search, filters, old, cvars >>

\* sidebar: Confirm Import of a file with both columns.  save_inventory, then
\* load_inventory; its ValueError is caught and shown, and leaves inventory_df
\* as it was.
ConfirmImport(file) ==
    /\ ~crashed
    /\ LET saved == save_inventory(init_db(db), file)
           loaded == load_inventory(saved.db, saved.csv)
       IN  /\ db' = saved.db
           /\ csv' = saved.csv
           /\ inventory_df' = IF loaded.ok THEN loaded.df ELSE inventory_df
           /\ Tab3(saved.db, run_search, filters)
           /\ last' = Done("import", -1, IF loaded.ok THEN "ok" ELSE "error")
    /\ UNCHANGED << crashed, run_search, filters, old, cvars >>

\* sidebar: Confirm Import of a file without berry_name or quantity: the
\* error is shown, nothing is saved, and the run goes on to tab3
ImportInvalid ==
    /\ ~crashed
    /\ Tab3(init_db(db), run_search, filters)
    /\ UNCHANGED << db, csv, inventory_df, crashed, run_search, filters, last, old, cvars >>

\* the run after inventory_df was deleted: the sidebar loads it again, and
\* the run dies there when load_inventory raises
Reloaded(table) ==
    LET loaded == load_inventory(table, csv)
    IN  /\ crashed' = ~loaded.ok
        /\ inventory_df' = loaded.df
        /\ IF loaded.ok
           THEN Tab3(table, run_search, filters)
           ELSE results' = << >>

\* sidebar: Reload from Server CSV
Reload ==
    /\ ~crashed
    /\ Reloaded(init_db(db))
    /\ last' = Done("reload", -1, IF crashed' THEN "error" ELSE "ok")
    /\ UNCHANGED << db, csv, run_search, filters, old, cvars >>

\* tab2: Search Recipes
SearchRecipes(f) ==
    /\ ~crashed
    /\ run_search' = TRUE
    /\ filters' = f
    /\ Tab3(init_db(db), TRUE, f)
    /\ last' = Done("search", -1, "ok")
    /\ UNCHANGED << db, csv, inventory_df, crashed, old, cvars >>

\* tab3: Cook This on a shown recipe.  The click's run queries again and the
\* button of r_id fires when it is drawn; then cook_recipe, inventory_df is
\* deleted and the script reruns.
CookThis(r_id) ==
    /\ ~crashed
    /\ run_search
    /\ r_id \in Range(results)
    /\ r_id \in UNION {Range(SearchQuery(init_db(db), filters, t)) : t \in ScanOrders}
    /\ LET cooked == cook_recipe(init_db(db), r_id)
       IN  /\ db' = cooked.db
           /\ Reloaded(cooked.db)
           /\ last' = Done("cook", -1, cooked.outcome)
    /\ UNCHANGED << csv, run_search, filters, old, cvars >>

\* one session managing its inventory and cooking what the default search shows
Next ==
    \/ \E i \in 1..Cardinality(Berries), v \in EditQty(MaxInvQty) : EditQuantity(i, v)
    \/ \E file \in ImportFiles(MaxInvQty) : ConfirmImport(file)
    \/ ImportInvalid
    \/ Reload
    \/ SearchRecipes(NoFilters)
    \/ \E r_id \in RecipeIds : CookThis(r_id)

Spec == Init /\ [][Next]_vars

\* one session editing its stock and searching with every filter
NextSearch ==
    \/ \E i \in 1..Cardinality(Berries), v \in EditQty(MaxQty) : EditQuantity(i, v)
    \/ \E f \in FilterSpecs : SearchRecipes(f)

SpecSearch == Init /\ [][NextSearch]_vars

\* ---------------------------------------------------- cook_recipe calls ----
\* cook_recipe(recipe_id) called on any inventory the imports and edits can
\* leave, with any id
CookCall(recipe_id) ==
    /\ LET cooked == cook_recipe(db, recipe_id)
       IN  /\ db' = cooked.db
           /\ last' = Done("cook", recipe_id, cooked.outcome)
    /\ old' = db
    /\ UNCHANGED << csv, inventory_df, crashed, run_search, filters, results, cvars >>

InitCook ==
    /\ db \in [DistinctBerries -> -1..MaxQty]
    /\ InitSession
    /\ InitConc

NextCook == \E recipe_id \in RecipeIds \cup {AbsentId} : CookCall(recipe_id)

SpecCook == InitCook /\ [][NextCook]_vars

\* ---------------------------------------------------- concurrent sessions ----
\* no write lock: every connection writes whenever it likes
CanWriteUnlocked(s) == TRUE

\* SQLite lets one connection write at a time: an UPDATE waits (busy handler)
\* while another connection's write transaction is open
CanWrite(s) == \A t \in Sessions \ {s} : ~intx[t]

\* the rows an UPDATE of connection s works on: its own uncommitted ones once
\* it writes, else the committed ones
WorkingTable(s) == IF intx[s] THEN txn[s] ELSE db

\* a SELECT that returns another connection's uncommitted rows
ReadUncommitted(s) ==
    IF intx[s] THEN txn[s]
    ELSE IF \E t \in Sessions \ {s} : intx[t]
         THEN txn[CHOOSE t \in Sessions \ {s} : intx[t]]
         ELSE db

\* the rows a SELECT of connection s returns: other connections' uncommitted
\* pages are in their caches, not in the file
ReadTable(s) == IF intx[s] THEN txn[s] ELSE db

\* cook_recipe, line 93: the SELECT of the recipe's rows
CookSelect(s, recipe_id) ==
    /\ pc[s] = "idle"
    /\ pc' = [pc EXCEPT ![s] = "update"]
    /\ cooking' = [cooking EXCEPT ![s] = recipe_id]
    /\ ingredients' = [ingredients EXCEPT ![s] = recipe_items(recipe_id)]
    /\ UNCHANGED << svars, intx, txn, base, seen >>

\* cook_recipe, line 97: one UPDATE of the loop (the first opens the
\* connection's transaction)
CookUpdate(s) ==
    /\ pc[s] = "update"
    /\ ingredients[s] # << >>
    /\ CanWrite(s)
    /\ LET name == Head(ingredients[s]).berry_name
           count == Head(ingredients[s]).count
           cur == WorkingTable(s)
       IN  txn' = [txn EXCEPT ![s] =
                      IF name \in DOMAIN cur
                      THEN SqlUpdate(cur, name, Decrement(cur[name], count))
                      ELSE cur]
    /\ base' = IF intx[s] THEN base ELSE [base EXCEPT ![s] = db]
    /\ intx' = [intx EXCEPT ![s] = TRUE]
    /\ ingredients' = [ingredients EXCEPT ![s] = Tail(ingredients[s])]
    /\ UNCHANGED << svars, pc, cooking, seen >>

\* cook_recipe, line 99: conn.commit()
CookCommit(s) ==
    /\ pc[s] = "update"
    /\ ingredients[s] = << >>
    /\ db' = WorkingTable(s)
    /\ intx' = [intx EXCEPT ![s] = FALSE]
    /\ pc' = [pc EXCEPT ![s] = "done"]
    /\ UNCHANGED << csv, inventory_df, crashed, run_search, filters, results,
                    last, old, cooking, ingredients, txn, base, seen >>

\* load_inventory, line 63, in a session that is not cooking: it records the
\* cook in flight in the other connection, if any
ReadInventory(s) ==
    /\ pc[s] = "idle"
    /\ pc' = [pc EXCEPT ![s] = "done"]
    /\ LET writers == {t \in Sessions \ {s} : intx[t]}
       IN  seen' = [seen EXCEPT ![s] =
                       IF writers = {}
                       THEN [read |-> TRUE, inv |-> ReadTable(s), recipe |-> AbsentId,
                             before |-> db, updates |-> 0]
                       ELSE LET t == CHOOSE w \in writers : TRUE
                            IN  [read |-> TRUE, inv |-> ReadTable(s),
                                 recipe |-> cooking[t], before |-> base[t],
                                 updates |-> Len(recipe_items(cooking[t]))
                                             - Len(ingredients[t])]]
    /\ UNCHANGED << svars, cooking, ingredients, intx, txn, base >>

ConcRecipes == 1..MaxConcRecipe

InitConcurrent ==
    /\ db \in [DistinctBerries -> 0..MaxQty]
    /\ InitSession
    /\ InitConc

NextConc ==
    \/ \E s \in Sessions, recipe_id \in ConcRecipes : CookSelect(s, recipe_id)
    \/ \E s \in Sessions : CookUpdate(s)
    \/ \E s \in Sessions : CookCommit(s)
    \/ \E s \in Sessions : ReadInventory(s)

SpecConc == InitConcurrent /\ [][NextConc]_vars

\* ---------------------------------------------------------- properties ----
\* the quantity stored for a name, 0 when the inventory has no row for it
StoredQty(n) == IF n \in DOMAIN db THEN db[n] ELSE 0

\* the count recipe r requires of berry n (0: n is not an ingredient of r)
Requires(r, n) ==
    IF \E k \in DOMAIN recipe_items(r) : recipe_items(r)[k].berry_name = n
    THEN recipe_items(r)[CHOOSE k \in DOMAIN recipe_items(r) :
                            recipe_items(r)[k].berry_name = n].count
    ELSE 0

\* C1: after cook_recipe(r) for a recipe r of the catalog, every ingredient n
\* that r requires with count c holds max(0, old(n) - c), whatever old(n)
\* was, and every other quantity is what it was.
CookConsistency ==
    (last.op = "cook" /\ last.id \in RecipeIds) =>
        /\ DOMAIN db = DOMAIN old
        /\ \A n \in DOMAIN old :
              db[n] = IF Requires(last.id, n) > 0
                      THEN (IF old[n] - Requires(last.id, n) > 0
                            THEN old[n] - Requires(last.id, n) ELSE 0)
                      ELSE old[n]

\* a cook of a two-ingredient recipe that found less of one ingredient than
\* it requires and enough of the other
CookedShortOfStock ==
    /\ last.op = "cook"
    /\ last.id \in RecipeIds
    /\ \E n, m \in DOMAIN old :
          /\ 0 < old[n] /\ old[n] < Requires(last.id, n) /\ db[n] = 0
          /\ 0 < Requires(last.id, m) /\ Requires(last.id, m) < old[m]
          /\ db[m] = old[m] - Requires(last.id, m)

\* the recipes the specification calls qualifying: every required count is in stock,
\* and every entered range holds the recipe's value, bounds included
Qualifies(r) ==
    /\ \A k \in DOMAIN recipe_items(r) :
          StoredQty(recipe_items(r)[k].berry_name) >= recipe_items(r)[k].count
    /\ \A k \in DOMAIN filters.flavors :
          /\ filters.flavors[k][2] <= Catalog[r][filters.flavors[k][1]]
          /\ Catalog[r][filters.flavors[k][1]] <= filters.flavors[k][3]
    /\ \A k \in DOMAIN filters.stats :
          /\ filters.stats[k][2] <= Catalog[r][filters.stats[k][1]]
          /\ Catalog[r][filters.stats[k][1]] <= filters.stats[k][3]

Qualifying == {r \in RecipeIds : Qualifies(r)}

\* C2: when fewer than 50 recipes qualify, the search returns exactly the
\* qualifying recipes: craftable from the stored quantities and inside every
\* entered range, bounds included; a recipe without ingredients is craftable.
SearchReturnsQualifying ==
    (run_search /\ Cardinality(Qualifying) < LimitRows) =>
        Range(results) = Qualifying

\* a search with a flavor and a stat range that keeps a recipe sitting on a
\* bound and a recipe without ingredients, and drops one recipe for its
\* stock and another for a range
SearchFiltered ==
    /\ run_search
    /\ filters.flavors # << >>
    /\ filters.stats # << >>
    /\ Cardinality(Qualifying) < LimitRows
    /\ \E r \in Range(results) :
          Catalog[r][filters.flavors[1][1]] = filters.flavors[1][2]
    /\ \E r \in Range(results) : recipe_items(r) = << >>
    /\ \E r \in RecipeIds \ Range(results) :
          /\ \E k \in DOMAIN recipe_items(r) :
                StoredQty(recipe_items(r)[k].berry_name) < recipe_items(r)[k].count
          /\ \A k \in DOMAIN filters.flavors :
                /\ filters.flavors[k][2] <= Catalog[r][filters.flavors[k][1]]
                /\ Catalog[r][filters.flavors[k][1]] <= filters.flavors[k][3]
    /\ \E r \in RecipeIds \ Range(results) :
          /\ \A k \in DOMAIN recipe_items(r) :
                StoredQty(recipe_items(r)[k].berry_name) >= recipe_items(r)[k].count
          /\ Catalog[r][filters.flavors[1][1]] > filters.flavors[1][3]

\* a ranks strictly before b under the ranking rule of the entered flag
RanksBefore(a, b) ==
    IF filters.prio
    THEN \/ Catalog[a].num_berries < Catalog[b].num_berries
         \/ /\ Catalog[a].num_berries = Catalog[b].num_berries
            /\ Catalog[a].final_calories > Catalog[b].final_calories
    ELSE \/ Catalog[a].final_calories > Catalog[b].final_calories
         \/ /\ Catalog[a].final_calories = Catalog[b].final_calories
            /\ Catalog[a].stars > Catalog[b].stars

\* C3: the result is min(50, N) distinct qualifying recipes in ranking order
\* (ascending num_berries then descending final_calories when prio, else
\* descending final_calories then descending stars), and no qualifying
\* recipe left out ranks strictly before one that is in.
RankedThenTruncated ==
    run_search =>
        /\ Len(results) = Min(LimitRows, Cardinality(Qualifying))
        /\ Range(results) \subseteq Qualifying
        /\ \A i, j \in DOMAIN results :
              i < j => results[i] # results[j] /\ ~RanksBefore(results[j], results[i])
        /\ \A q \in Qualifying \ Range(results) :
              \A r \in Range(results) : ~RanksBefore(q, r)

\* a search with more than 50 qualifying recipes, ranked by calories, whose
\* left-out recipes all rank after the last one shown
SearchTruncated ==
    /\ run_search
    /\ ~filters.prio
    /\ Cardinality(Qualifying) > LimitRows
    /\ Len(results) = LimitRows
    /\ \E q \in Qualifying \ Range(results) : RanksBefore(results[LimitRows], q)

\* C4: every stored quantity is >= 0 in every state reachable by edits,
\* imports, reloads and cooks.
QuantityNonNegative == \A n \in DOMAIN db : db[n] >= 0

\* C5: cook_recipe with an id absent from the catalog ends in NotFoundError
\* and changes no quantity.
CookUnknownIsNotFound ==
    (last.op = "cook" /\ last.id \notin RecipeIds) =>
        (last.outcome = "NotFoundError" /\ db = old)

\* recipes that tie on both ranking keys appear in catalog order
TiesInCatalogOrder(rows) ==
    \A i, j \in DOMAIN rows :
        (i < j /\ ~RanksBefore(rows[i], rows[j]) /\ ~RanksBefore(rows[j], rows[i]))
            => rows[i] < rows[j]

BothCooked == \A s \in Sessions : pc[s] = "done" /\ cooking[s] \in RecipeIds

\* C7: two sessions cooking concurrently recipes that share an ingredient n
\* (counts c1, c2, starting quantity q) leave max(0, q - c1 - c2) of n under
\* every interleaving.
NoLostDecrement ==
    BothCooked =>
        \A n \in DOMAIN old :
            (Requires(cooking[1], n) > 0 /\ Requires(cooking[2], n) > 0) =>
                db[n] = (IF old[n] - Requires(cooking[1], n) - Requires(cooking[2], n) > 0
                         THEN old[n] - Requires(cooking[1], n) - Requires(cooking[2], n)
                         ELSE 0)

\* both cooks done on a shared ingredient that had stock for both
BothDecrementsApplied ==
    /\ BothCooked
    /\ \E n \in DOMAIN old :
          /\ Requires(cooking[1], n) > 0
          /\ Requires(cooking[2], n) > 0
          /\ old[n] >= Requires(cooking[1], n) + Requires(cooking[2], n)

\* a read taken while a cook of recipe r found `before` shows, on r's
\* ingredients, either none of its decrements or all of them
AllOrNone(inv, before, r) ==
    \/ \A k \in DOMAIN recipe_items(r) :
          inv[recipe_items(r)[k].berry_name] = before[recipe_items(r)[k].berry_name]
    \/ \A k \in DOMAIN recipe_items(r) :
          inv[recipe_items(r)[k].berry_name] =
              (IF before[recipe_items(r)[k].berry_name] - recipe_items(r)[k].count > 0
               THEN before[recipe_items(r)[k].berry_name] - recipe_items(r)[k].count
               ELSE 0)

\* C8: no read of the store by another session sees some of a cooking
\* recipe's ingredients decremented and others not.
NoHalfAppliedRead ==
    \A s \in Sessions : seen[s].read => AllOrNone(seen[s].inv, seen[s].before, seen[s].recipe)

\* a read taken between the two UPDATEs of a cook whose ingredients were
\* both in stock
ReadBetweenUpdates ==
    \E s \in Sessions :
        /\ seen[s].read
        /\ Len(recipe_items(seen[s].recipe)) = 2
        /\ seen[s].updates = 1
        /\ \A k \in DOMAIN recipe_items(seen[s].recipe) :
              seen[s].before[recipe_items(seen[s].recipe)[k].berry_name] > 0

\* the view in session state has the store's names, each with its quantity
ViewMatchesStore ==
    /\ ~crashed
    /\ Len(inventory_df) = Cardinality(DOMAIN db)
    /\ {inventory_df[i].berry_name : i \in DOMAIN inventory_df} = DOMAIN db
    /\ \A i \in DOMAIN inventory_df :
          inventory_df[i].berry_name \in DOMAIN db
              => inventory_df[i].quantity = db[inventory_df[i].berry_name]

\* C9: after every completed action of a session the displayed inventory has
\* exactly the store's names and quantities, also after an import of some of
\* the names or of unknown names; and an edit changes no stored quantity of
\* an ingredient the user did not edit.
ViewFollowsStore ==
    [][/\ ViewMatchesStore'
       /\ last'.op = "edit" =>
             \A n \in DOMAIN db :
                 (\A i \in DOMAIN inventory_df :
                     inventory_df[i].berry_name = n
                         => inventory_df'[i].quantity = inventory_df[i].quantity)
                 => db'[n] = db[n]]_vars

\* the berry names some recipe of the catalog references
ReferencedNames ==
    {n \in Berries \cup {UnknownBerry} :
        \E r \in RecipeIds : \E k \in DOMAIN recipe_items(r) :
            recipe_items(r)[k].berry_name = n}

\* C10: the inventory's names are the names the catalog's recipes reference,
\* initially and after every edit, import and cook; an imported entry whose
\* name is no existing ingredient changes no quantity (an import changes
\* only the quantities of the names it lists).
InventoryNamesFixed ==
    /\ DOMAIN db = ReferencedNames
    /\ [][/\ DOMAIN db' = ReferencedNames
          /\ last'.op = "import" =>
                \A n \in DOMAIN db : n \notin Range(csv') => db'[n] = db[n]]_vars

\* an import that listed an unknown name beside a known one, after which the
\* unlisted ingredient still has its stock
ImportedUnknownName ==
    /\ last.op = "import"
    /\ last.outcome = "ok"
    /\ UnknownBerry \in Range(csv)
    /\ \E n \in DOMAIN db : n \in Range(csv) /\ db[n] = -1
    /\ \E n \in DOMAIN db : n \notin Range(csv) /\ db[n] > 0

====
